---- MODULE Spec2Model ----
(***************************************************************************)
(* Session tracking of the chat streaming layer:                           *)
(*   - ClaudeSdkManager (activeSessions, startSession, abortSession),      *)
(*   - the chat:stream handler (activeStreamSessions, the streaming loop   *)
(*     and its token-budget events),                                       *)
(*   - the useStreamChat hook (sessionId state).                           *)
(* All three live in src/components/settings/ClaudeCodeConfiguration.tsx.  *)
(*                                                                         *)
(* Provider lifecycle of the Claude Code provider:                         *)
(*   - detection, version query, install, update and capability scan       *)
(*     (src/ipc/utils/lm_studio_utils.ts),                                 *)
(*   - the IPC handlers (src/ipc/handlers/local_model_claudecode_handler), *)
(*   - the useClaudeCodeModels hook (src/hooks/useClaudeCodeModels.ts).    *)
(***************************************************************************)
EXTENDS Integers, Naturals, Sequences, FiniteSets, TLC

\* ---------------------------------------------------------------- bounds
MaxSessions == 2      \* number of uuidv4() calls explored
MaxChats    == 2      \* chatId values explored
MaxAborts   == 2      \* abortSession calls explored
MaxParts    == 2      \* parts delivered by one fullStream
MaxTokens   == 1      \* largest usage.totalTokens explored

UnknownId == MaxSessions + 1   \* a sessionId that uuidv4() never issues
Ids     == 1..UnknownId
ChatIds == 1..MaxChats
NoSession == 0        \* Map.get(...) === undefined / sessionId === null

\* A part of fullStream: a text delta, or a usage part whose usage field is
\* either missing (usage = -1) or carries totalTokens.
Parts == {[type |-> "text", usage |-> -1]}
           \cup {[type |-> "usage", usage |-> u] : u \in -1..MaxTokens}

VARIABLES
  uuid,                 \* number of identifiers uuidv4() has issued
  activeSessions,       \* ClaudeSdkManager.activeSessions: sessionId -> session
  instance,             \* state of each session's query() generator
  interrupts,           \* instance.interrupt() invocations per sessionId
  aborting,             \* abortSession calls suspended at their await
  retTrue,              \* abortSession calls that resolved to true
  retFalse,             \* abortSession calls that resolved to false
  activeStreamSessions, \* handler map: chatId -> sessionId of its StreamSession
  streamPc,             \* position of each chat:stream handler run
  chatOf,               \* chatId each identifier was issued for
  partsRead,            \* parts the streaming loop has consumed
  chunkCount,           \* chat:response:chunk events sent per stream
  budgetCount,          \* chat:response:token-budget events sent per stream
  lastUsed,             \* used value of the latest token-budget event
  endEvents,            \* end events sent per stream
  errorEvents,          \* error events sent per stream
  abortedAt,            \* streams that were running when their chat was aborted
  sessionId             \* useStreamChat: the hook's sessionId state

VARIABLES
  platform,             \* os.platform() of the host process
  fs,                   \* the file system: state of every path detection looks at
  home,                 \* the ~/.claude tree the capability scan reads
  manualClaudeCodePath, \* module variable of the same name
  installation,         \* claudeCodeInstallationAtom
  capabilities,         \* claudeCodeCapabilitiesAtom
  ret                   \* the latest call: its name, inputs, result and trace

hostVars == <<platform, fs, home, manualClaudeCodePath, installation,
              capabilities, ret>>

VARIABLES
  mainPc,               \* main process thread: idle, or inside an execSync call
  child,                \* the child process execSync is waiting for
  beat,                 \* flips with every step of a child that never exits
  issued,               \* IPC requests the renderer has sent to the main process
  answered,             \* IPC requests an ipcMain handler has answered
  calls                 \* execSync calls made so far

procVars == <<mainPc, child, beat, issued, answered, calls>>

VARIABLES
  hookPc,               \* position of each hook operation: idle or at an await
  hookOps,              \* hook operations started so far
  isSelecting,          \* component state of the same name
  isInstalling,         \* component state of the same name
  isUpdating,           \* component state of the same name
  toast,                \* title of the latest toast()
  loading,              \* claudeCodeModelsLoadingAtom
  claudeCodeModels,     \* claudeCodeModelsAtom
  claudeCodeModelsError, \* claudeCodeModelsErrorAtom
  loadsInFlight,        \* loadModels calls suspended at their await
  loadCalls             \* loadModels calls made so far

uiVars == <<hookPc, hookOps, isSelecting, isInstalling, isUpdating, toast,
            loading, claudeCodeModels, claudeCodeModelsError, loadsInFlight,
            loadCalls>>

moreVars == <<procVars, uiVars>>

sessionVars == <<uuid, activeSessions, instance, interrupts, aborting,
                 retTrue, retFalse, activeStreamSessions, streamPc, chatOf,
                 partsRead, chunkCount, budgetCount, lastUsed, endEvents,
                 errorEvents, abortedAt, sessionId>>

vars == <<sessionVars, hostVars, moreVars>>

managerVars == <<activeSessions, instance, interrupts, aborting,
                 retTrue, retFalse>>
streamVars  == <<activeStreamSessions, streamPc, partsRead, chunkCount,
                 budgetCount, lastUsed, endEvents, errorEvents, sessionId>>

\* ------------------------------------------------------------- helpers
\* Map.prototype.delete
MapDelete(m, k) == [x \in (DOMAIN m) \ {k} |-> m[x]]

\* Map.prototype.set
MapSet(m, k, v) == [x \in (DOMAIN m) \cup {k} |-> IF x = k THEN v ELSE m[x]]

\* sessions of the manager table that are active for chat c
ActiveFor(c) == {s \in DOMAIN activeSessions :
                   activeSessions[s].chatId = c /\ activeSessions[s].status = "active"}

\* abortSession calls made so far for sessionId s: each one either returned
\* false at the look-up or went on to call interrupt()
AbortCalls(s) == retFalse[s] + interrupts[s]

\* abortSession calls made so far, whatever their sessionId
RECURSIVE AbortCallsUpTo(_)
AbortCallsUpTo(n) == IF n = 0 THEN 0 ELSE AbortCalls(n) + AbortCallsUpTo(n - 1)
AllAbortCalls == AbortCallsUpTo(UnknownId)

\* ----------------------------------------------------------------- Init
\* No stream has been started and no session exists.
InitSessions ==
  /\ uuid = 0
  /\ activeSessions = [s \in {} |-> [status |-> "active", chatId |-> 1]]
  /\ instance = [s \in Ids |-> "none"]
  /\ interrupts = [s \in Ids |-> 0]
  /\ aborting = [s \in Ids |-> 0]
  /\ retTrue = [s \in Ids |-> 0]
  /\ retFalse = [s \in Ids |-> 0]
  /\ activeStreamSessions = [c \in ChatIds |-> NoSession]
  /\ streamPc = [s \in Ids |-> "none"]
  /\ chatOf = [s \in Ids |-> 0]
  /\ partsRead = [s \in Ids |-> 0]
  /\ chunkCount = [s \in Ids |-> 0]
  /\ budgetCount = [s \in Ids |-> 0]
  /\ lastUsed = [s \in Ids |-> 0]
  /\ endEvents = [s \in Ids |-> 0]
  /\ errorEvents = [s \in Ids |-> 0]
  /\ abortedAt = [s \in Ids |-> FALSE]
  /\ sessionId = NoSession

\* ------------------------------------------------------- host: statics
MaxSelectable == 1    \* paths the user can pick in the file dialog
MaxEntries    == 2    \* names a capability directory can hold

Null == "null"        \* null / undefined, where a string is expected
None == [none |-> TRUE]   \* null, where an object is expected

Platforms == {"darwin", "linux", "win32", "freebsd"}

\* CLAUDE_CODE_PATHS[currentPlatform] || []
CLAUDE_CODE_PATHS(p) ==
  IF p \in {"darwin", "linux"}
    THEN <<"~/.claude/claude", "~/.claude/bin/claude", "/usr/local/bin/claude",
           "~/.local/bin/claude", "~/bin/claude">>
    ELSE IF p = "win32" THEN <<"C:/Windows/System32/wsl.exe">>
    ELSE <<>>

Range(q) == {q[i] : i \in 1..Len(q)}

\* paths the file dialog can return, and the path `which claude` can print
Selectable == {"/picked/claude"} \cup {"/picked/claude2" : i \in 2..MaxSelectable}
                \cup {"/picked/claude3" : i \in 3..MaxSelectable}
WhichPath == "/opt/bin/claude"

AllPaths == Range(CLAUDE_CODE_PATHS("linux")) \cup Range(CLAUDE_CODE_PATHS("win32"))
              \cup Selectable \cup {WhichPath}

\* a path is absent, a plain file, or an executable file
FileStates == {"absent", "file", "exec"}

\* names found in a capability directory and what statSync says of each
EntryList == SubSeq(<<"e1", "e2", "e3", "e4", "e5">>, 1, MaxEntries)
EntryNames == Range(EntryList)
EntryKinds == {"none", "dir", "file", "nostat"}

DirAbsent == [state |-> "absent", entries |-> [n \in EntryNames |-> "none"]]
DirUnreadable == [state |-> "unreadable",
                  entries |-> [n \in EntryNames |-> "none"]]
Dirs == {DirAbsent, DirUnreadable}
          \cup {[state |-> "ok", entries |-> e] : e \in [EntryNames -> EntryKinds]}

\* values JSON.parse can put in a field of settings.json: the field is
\* missing, a number, an array of strings, or an object with some keys
Undefined == [t |-> "undefined"]
Number5 == [t |-> "number"]
JsArray(v) == [t |-> "array", v |-> v]
JsObject(keys) == [t |-> "object", keys |-> keys]

\* ~/.claude/settings.json: missing, unreadable, not JSON, the JSON text
\* `null`, or a JSON object
SettingsAbsent == [state |-> "absent", models |-> Undefined,
                   mcpServers |-> Undefined]
SettingsFiles ==
  {[state |-> st, models |-> Undefined, mcpServers |-> Undefined] :
      st \in {"absent", "unreadable", "malformed", "null"}}
    \cup {[state |-> "ok", models |-> m, mcpServers |-> c] :
            m \in {Undefined, Number5, JsArray(<<"m1">>)},
            c \in {Undefined, Number5, JsArray(<<"s1">>), JsObject(<<"k1">>)}}

\* the home directory: without ~/.claude nothing below it exists
NoHome == [claudeDir |-> FALSE, agents |-> DirAbsent, plugins |-> DirAbsent,
           settings |-> SettingsAbsent]
Homes == {NoHome}
           \cup [claudeDir : {TRUE}, agents : Dirs, plugins : Dirs,
                 settings : SettingsFiles]

NoCall == [op |-> "none"]

\* The host before any call, on a machine with nothing installed.
InitHostIdle ==
  /\ platform = "linux"
  /\ fs = [p \in AllPaths |-> "absent"]
  /\ home = NoHome
  /\ manualClaudeCodePath = Null
  /\ installation = None
  /\ capabilities = None
  /\ ret = NoCall

\* The main process thread is idle and no request has been sent.
Idle == [state |-> "idle", op |-> "none"]
InitMainIdle ==
  /\ mainPc = Idle
  /\ child = "none"
  /\ beat = FALSE
  /\ issued = 0
  /\ answered = 0
  /\ calls = 0

\* The renderer after mount: atoms at their initial values, no hook
\* operation in progress, no toast shown.
HookOps == {"selectPath", "installClaudeCode", "updateClaudeCode"}
HookIdle == [X \in HookOps |-> [state |-> "idle"]]
InitUiIdle ==
  /\ hookPc = HookIdle
  /\ hookOps = 0
  /\ isSelecting = FALSE
  /\ isInstalling = FALSE
  /\ isUpdating = FALSE
  /\ toast = "none"
  /\ loading = FALSE
  /\ claudeCodeModels = <<>>
  /\ claudeCodeModelsError = Null
  /\ loadsInFlight = 0
  /\ loadCalls = 0

Init ==
  /\ InitSessions
  /\ InitMainIdle
  /\ InitUiIdle
  /\ InitHostIdle

\* ------------------------------------------------- ClaudeSdkManager
\* startSession: a fresh uuid, a query() generator, one entry in the table.
\* There is no look-up of an existing session for params.chatId.
startSession(c) ==
  /\ uuid < MaxSessions
  /\ LET id == uuid + 1 IN
       /\ uuid' = id
       /\ activeSessions' = MapSet(activeSessions, id,
                                   [status |-> "active", chatId |-> c])
       /\ instance' = [instance EXCEPT ![id] = "running"]
       /\ chatOf' = [chatOf EXCEPT ![id] = c]
  /\ UNCHANGED <<interrupts, aborting, retTrue, retFalse,
                 abortedAt>>
  /\ UNCHANGED streamVars
  /\ UNCHANGED hostVars
  /\ UNCHANGED moreVars

\* abortSession without its `if (!session) return false`: every call goes on
\* to interrupt() and suspends at the await.
abortSessionCallNoLookup(s) ==
  /\ s <= uuid \/ s = UnknownId
  /\ AllAbortCalls < MaxAborts
  /\ interrupts' = [interrupts EXCEPT ![s] = @ + 1]
  /\ aborting' = [aborting EXCEPT ![s] = @ + 1]
  /\ UNCHANGED <<uuid, activeSessions, instance, retTrue, retFalse, chatOf,
                 abortedAt>>
  /\ UNCHANGED streamVars
  /\ UNCHANGED hostVars
  /\ UNCHANGED moreVars

\* abortSession up to its await: the look-up, the early return false, and the
\* call of session.instance.interrupt().
abortSessionCall(s) ==
  /\ s <= uuid \/ s = UnknownId
  /\ AllAbortCalls < MaxAborts
  /\ IF s \notin DOMAIN activeSessions
       THEN /\ retFalse' = [retFalse EXCEPT ![s] = @ + 1]
            /\ UNCHANGED <<interrupts, aborting>>
       ELSE /\ interrupts' = [interrupts EXCEPT ![s] = @ + 1]
            /\ aborting' = [aborting EXCEPT ![s] = @ + 1]
            /\ UNCHANGED retFalse
  /\ UNCHANGED <<uuid, activeSessions, instance, retTrue, chatOf, abortedAt>>
  /\ UNCHANGED streamVars
  /\ UNCHANGED hostVars
  /\ UNCHANGED moreVars

\* abortSession after interrupt() resolved: status = 'aborted', delete,
\* return true.  The call holds the session object it looked up before the
\* await, so it runs whether or not the entry is still in the table.
abortSessionResume(s) ==
  /\ aborting[s] > 0
  /\ aborting' = [aborting EXCEPT ![s] = @ - 1]
  /\ LET marked == IF s \in DOMAIN activeSessions
                     THEN [activeSessions EXCEPT ![s].status = "aborted"]
                     ELSE activeSessions
     IN activeSessions' = MapDelete(marked, s)
  /\ retTrue' = [retTrue EXCEPT ![s] = @ + 1]
  /\ abortedAt' = [t \in Ids |->
                     abortedAt[t] \/ (streamPc[t] = "streaming"
                                      /\ chatOf[t] = chatOf[s])]
  /\ UNCHANGED <<uuid, instance, interrupts, retFalse, chatOf>>
  /\ UNCHANGED streamVars
  /\ UNCHANGED hostVars
  /\ UNCHANGED moreVars

\* abortSession when interrupt() rejects: the await throws, nothing after it
\* runs and the call rejects.
abortSessionThrow(s) ==
  /\ aborting[s] > 0
  /\ aborting' = [aborting EXCEPT ![s] = @ - 1]
  /\ UNCHANGED <<uuid, activeSessions, instance, interrupts,
                 retTrue, retFalse, chatOf, abortedAt>>
  /\ UNCHANGED streamVars
  /\ UNCHANGED hostVars
  /\ UNCHANGED moreVars

\* The query() generator of a session runs to its end, or throws.  The
\* manager has no code that reacts to either.
instanceStep(s, outcome) ==
  /\ instance[s] = "running"
  /\ instance' = [instance EXCEPT ![s] = outcome]
  /\ UNCHANGED <<uuid, activeSessions, interrupts, aborting,
                 retTrue, retFalse, chatOf, abortedAt>>
  /\ UNCHANGED streamVars
  /\ UNCHANGED hostVars
  /\ UNCHANGED moreVars

\* ------------------------------------------------ chat:stream handler
\* useStreamChat callbacks, run on the events the handler sends.
onSessionCreated(id) == id
onEnd == NoSession
onError == NoSession

\* Session tracking at the start of the handler: uuid, Map.set on req.chatId
\* (replacing whatever entry the chat had), session-created event.
chatStream(c) ==
  /\ uuid < MaxSessions
  /\ LET id == uuid + 1 IN
       /\ uuid' = id
       /\ activeStreamSessions' = [activeStreamSessions EXCEPT ![c] = id]
       /\ streamPc' = [streamPc EXCEPT ![id] = "streaming"]
       /\ chatOf' = [chatOf EXCEPT ![id] = c]
       /\ sessionId' = onSessionCreated(id)
  /\ UNCHANGED <<partsRead, chunkCount, budgetCount, lastUsed, endEvents,
                 errorEvents, abortedAt>>
  /\ UNCHANGED managerVars
  /\ UNCHANGED hostVars
  /\ UNCHANGED moreVars

\* used field of the token budget built from a usage part
TokenBudgetUsed(part) == part.usage

\* One iteration of the for-await loop: the existing chunk processing sends a
\* chunk event for a text part; a usage part that carries usage sends a
\* token-budget event.
streamPart(id, part) ==
  /\ streamPc[id] = "streaming"
  /\ partsRead[id] < MaxParts
  /\ partsRead' = [partsRead EXCEPT ![id] = @ + 1]
  /\ chunkCount' = [chunkCount EXCEPT ![id] =
                      IF part.type = "text" THEN @ + 1 ELSE @]
  /\ IF part.type = "usage" /\ part.usage # -1
       THEN /\ budgetCount' = [budgetCount EXCEPT ![id] = @ + 1]
            /\ lastUsed' = [lastUsed EXCEPT ![id] = TokenBudgetUsed(part)]
       ELSE UNCHANGED <<budgetCount, lastUsed>>
  /\ UNCHANGED <<uuid, activeStreamSessions, streamPc, chatOf, endEvents,
                 errorEvents, abortedAt, sessionId>>
  /\ UNCHANGED managerVars
  /\ UNCHANGED hostVars
  /\ UNCHANGED moreVars

\* fullStream is exhausted: the loop exits and the end event is sent.
streamEnd(id) ==
  /\ streamPc[id] = "streaming"
  /\ streamPc' = [streamPc EXCEPT ![id] = "done"]
  /\ endEvents' = [endEvents EXCEPT ![id] = @ + 1]
  /\ sessionId' = onEnd
  /\ UNCHANGED <<uuid, activeStreamSessions, chatOf, partsRead, chunkCount,
                 budgetCount, lastUsed, errorEvents, abortedAt>>
  /\ UNCHANGED managerVars
  /\ UNCHANGED hostVars
  /\ UNCHANGED moreVars

\* fullStream throws: the loop exits and the error event is sent.
streamError(id) ==
  /\ streamPc[id] = "streaming"
  /\ streamPc' = [streamPc EXCEPT ![id] = "failed"]
  /\ errorEvents' = [errorEvents EXCEPT ![id] = @ + 1]
  /\ sessionId' = onError
  /\ UNCHANGED <<uuid, activeStreamSessions, chatOf, partsRead, chunkCount,
                 budgetCount, lastUsed, endEvents, abortedAt>>
  /\ UNCHANGED managerVars
  /\ UNCHANGED hostVars
  /\ UNCHANGED moreVars

\* ----------------------------------------------------------------- Next
NextManager ==
  \/ \E c \in ChatIds : startSession(c)
  \/ \E s \in Ids : abortSessionCall(s)
  \/ \E s \in Ids : abortSessionResume(s)
  \/ \E s \in Ids : abortSessionThrow(s)
  \/ \E s \in Ids : \E o \in {"done", "failed"} : instanceStep(s, o)

\* The manager on its own: every call of ClaudeSdkManager and every outcome
\* of its generators, with no chat:stream handler running.
SpecManager == Init /\ [][NextManager]_vars

Next ==
  \/ NextManager
  \/ \E c \in ChatIds : chatStream(c)
  \/ \E id \in Ids : \E p \in Parts : streamPart(id, p)
  \/ \E id \in Ids : streamEnd(id)
  \/ \E id \in Ids : streamError(id)

Spec == Init /\ [][Next]_vars

\* =========================================================== detection
\* fs.existsSync
existsSync(f, p) == f[p] # "absent"

\* What a child process run by execSync does: it exits non-zero (execSync
\* throws) or it prints its output, a sequence of tokens in which "\n" and
\* " " are white space.
White == {"\n", " "}
RECURSIVE TrimLeft(_)
TrimLeft(out) == IF out # <<>> /\ Head(out) \in White
                   THEN TrimLeft(Tail(out)) ELSE out
RECURSIVE TrimRight(_)
TrimRight(out) == IF out # <<>> /\ out[Len(out)] \in White
                    THEN TrimRight(SubSeq(out, 1, Len(out) - 1)) ELSE out
\* String.prototype.trim of an output that holds at most one word
Trim(out) == LET t == TrimRight(TrimLeft(out))
             IN IF t = <<>> THEN "" ELSE t[1]

\* outcomes of `which claude`
WhichOutcomes ==
  {[kind |-> "throw"], [kind |-> "out", out |-> <<"\n">>],
   [kind |-> "out", out |-> <<WhichPath, "\n">>]}

\* outcomes of `"<path>" --version`
VersionOutcomes ==
  {[kind |-> "throw"], [kind |-> "out", out |-> <<"\n">>],
   [kind |-> "out", out |-> <<"1.0.0", "\n">>]}

\* The for loop over the candidate list: the first candidate that exists is
\* returned at once; probed lists the candidates existsSync was asked about.
RECURSIVE WalkPaths(_, _, _, _)
WalkPaths(f, paths, i, probed) ==
  IF i > Len(paths) THEN [path |-> Null, probed |-> probed]
  ELSE IF existsSync(f, paths[i])
         THEN [path |-> paths[i], probed |-> Append(probed, paths[i])]
         ELSE WalkPaths(f, paths, i + 1, Append(probed, paths[i]))

\* The try block around `which claude`.  throws tells whether an exception
\* of execSync leaves the function; the catch of the source stops it.
WhichProbe(f, w, throws) ==
  IF w.kind = "throw"
    THEN [path |-> Null, raised |-> throws]
    ELSE LET whichResult == Trim(w.out)
         IN IF whichResult # "" /\ existsSync(f, whichResult)
              THEN [path |-> whichResult, raised |-> FALSE]
              ELSE [path |-> Null, raised |-> FALSE]

\* detectClaudeCodePath.  manual is manualClaudeCodePath, p the platform, f
\* the file system and w what `which claude` would do.  The result carries
\* the returned path, the candidates examined, whether `which` was run and
\* whether the call raised.
DetectWith(manual, p, f, w, manualFirst, throws) ==
  LET useManual == manual # Null /\ existsSync(f, manual)
      asked == IF manual # Null THEN <<manual>> ELSE <<>>
  IN
  IF manualFirst /\ useManual
    THEN [path |-> manual, probed |-> asked, which |-> FALSE, raised |-> FALSE]
  ELSE IF p = "win32"
    THEN [path |-> Null, probed |-> asked, which |-> FALSE, raised |-> FALSE]
  ELSE IF ~manualFirst /\ useManual
    THEN [path |-> manual, probed |-> asked, which |-> FALSE, raised |-> FALSE]
  ELSE LET walk == WalkPaths(f, CLAUDE_CODE_PATHS(p), 1, asked)
       IN IF walk.path # Null
            THEN [path |-> walk.path, probed |-> walk.probed,
                  which |-> FALSE, raised |-> FALSE]
            ELSE LET probe == WhichProbe(f, w, throws)
                 IN [path |-> probe.path, probed |-> walk.probed,
                     which |-> TRUE, raised |-> probe.raised]

\* detectClaudeCodePath with the `which` call outside any try block
detectClaudeCodePathNoCatch(manual, p, f, w) ==
  DetectWith(manual, p, f, w, TRUE, TRUE)

\* detectClaudeCodePath with the win32 return placed before the manual check
detectClaudeCodePathPlatformFirst(manual, p, f, w) ==
  DetectWith(manual, p, f, w, FALSE, FALSE)

detectClaudeCodePath(manual, p, f, w) ==
  DetectWith(manual, p, f, w, TRUE, FALSE)

\* getClaudeCodeVersion: its own detection, then the version query
getClaudeCodeVersion(manual, p, f, w, v) ==
  LET d == detectClaudeCodePath(manual, p, f, w)
  IN IF d.raised THEN [version |-> Null, raised |-> TRUE]
     ELSE IF d.path = Null THEN [version |-> Null, raised |-> FALSE]
     ELSE IF v.kind = "throw" THEN [version |-> Null, raised |-> FALSE]
     ELSE [version |-> Trim(v.out), raised |-> FALSE]

\* getClaudeCodeInstallationInfo reporting installed only when the version
\* query answered
getClaudeCodeInstallationInfoByVersion(manual, p, f, w1, w2, v) ==
  LET d == detectClaudeCodePath(manual, p, f, w1)
      ver == IF d.path # Null THEN getClaudeCodeVersion(manual, p, f, w2, v)
             ELSE [version |-> Null, raised |-> FALSE]
  IN [raised |-> FALSE, installed |-> ver.version # Null, path |-> d.path,
      version |-> ver.version]

\* getClaudeCodeInstallationInfo: w1 is what `which` does in the handler's
\* own detection, w2 what it does in the detection of getClaudeCodeVersion.
getClaudeCodeInstallationInfo(manual, p, f, w1, w2, v) ==
  LET d == detectClaudeCodePath(manual, p, f, w1)
      installed == d.path # Null
      ver == IF installed THEN getClaudeCodeVersion(manual, p, f, w2, v)
             ELSE [version |-> Null, raised |-> FALSE]
  IN IF d.raised \/ ver.raised
       THEN [raised |-> TRUE, installed |-> FALSE, path |-> Null,
             version |-> Null]
       ELSE [raised |-> FALSE, installed |-> installed, path |-> d.path,
             version |-> ver.version]

\* ------------------------------------------------------ host: actions
\* selectClaudeCodePath: the dialog is cancelled, returns no path, or returns
\* the picked path, which setManualClaudeCodePath stores.
DialogResults ==
  {[canceled |-> TRUE, filePaths |-> <<>>], [canceled |-> FALSE, filePaths |-> <<>>]}
    \cup {[canceled |-> FALSE, filePaths |-> <<q>>] : q \in Selectable}

\* selectClaudeCodePath storing whatever the dialog gave, a cancelled or
\* empty selection included
selectClaudeCodePathAlwaysStore(result) ==
  LET selectedPath == IF result.canceled \/ Len(result.filePaths) = 0
                        THEN Null ELSE result.filePaths[1]
  IN /\ manualClaudeCodePath' = selectedPath
     /\ ret' = [op |-> "select", path |-> selectedPath]
     /\ UNCHANGED <<platform, fs, home, installation, capabilities>>
     /\ UNCHANGED sessionVars
     /\ UNCHANGED moreVars

selectClaudeCodePath(result) ==
  /\ IF result.canceled \/ Len(result.filePaths) = 0
       THEN /\ ret' = [op |-> "select", path |-> Null]
            /\ UNCHANGED manualClaudeCodePath
       ELSE /\ manualClaudeCodePath' = result.filePaths[1]
            /\ ret' = [op |-> "select", path |-> result.filePaths[1]]
  /\ UNCHANGED <<platform, fs, home, installation, capabilities>>
  /\ UNCHANGED sessionVars
  /\ UNCHANGED moreVars

\* Whether a detection in the current state gets as far as `which claude`.
\* When it does not, what `which` would do is never observed, and the calls
\* below are explored for one outcome of it only (likewise for the version
\* query of a provider that is not found).
WhichIsRun == detectClaudeCodePath(manualClaudeCodePath, platform, fs,
                                   [kind |-> "throw"]).which
Observed(used, outcome) == used \/ outcome = [kind |-> "throw"]

\* a call of detectClaudeCodePath
callDetect(w) ==
  /\ Observed(WhichIsRun, w)
  /\ ret' = [op |-> "detect", manual |-> manualClaudeCodePath, w |-> w,
             res |-> detectClaudeCodePath(manualClaudeCodePath, platform, fs, w)]
  /\ UNCHANGED <<platform, fs, home, manualClaudeCodePath, installation,
                 capabilities>>
  /\ UNCHANGED sessionVars
  /\ UNCHANGED moreVars

\* the claudecode:get-installation-info handler
callInstallationInfo(w1, w2, v) ==
  /\ Observed(WhichIsRun, w1)
  /\ Observed(WhichIsRun, w2)
  /\ Observed(detectClaudeCodePath(manualClaudeCodePath, platform, fs,
                                   w1).path # Null, v)
  /\ ret' = [op |-> "info", manual |-> manualClaudeCodePath, w |-> w1,
             w2 |-> w2, v |-> v,
             res |-> getClaudeCodeInstallationInfo(manualClaudeCodePath,
                                                   platform, fs, w1, w2, v)]
  /\ UNCHANGED <<platform, fs, home, manualClaudeCodePath, installation,
                 capabilities>>
  /\ UNCHANGED sessionVars
  /\ UNCHANGED moreVars

\* Detection on every platform and every state of the paths it looks at.
\* Paths the platform's detection never reads are left absent.
Relevant(p) == Range(CLAUDE_CODE_PATHS(p)) \cup Selectable
                 \cup (IF p = "win32" THEN {} ELSE {WhichPath})

InitDetect ==
  /\ InitSessions
  /\ InitMainIdle
  /\ InitUiIdle
  /\ platform \in Platforms
  /\ fs \in [AllPaths -> FileStates]
  /\ \A q \in AllPaths \ Relevant(platform) : fs[q] = "absent"
  /\ home = NoHome
  /\ manualClaudeCodePath = Null
  /\ installation = None
  /\ capabilities = None
  /\ ret = NoCall

NextDetect ==
  \/ \E r \in DialogResults : selectClaudeCodePath(r)
  \/ \E w \in WhichOutcomes : callDetect(w)
  \/ \E w1 \in WhichOutcomes : \E w2 \in WhichOutcomes :
       \E v \in VersionOutcomes : callInstallationInfo(w1, w2, v)

SpecDetect == InitDetect /\ [][NextDetect]_vars

\* ======================================================== capabilities
\* The filter of listDirectories over readdirSync's names, in the order of
\* the listing: statSync(...).isDirectory(), with false for a name whose
\* stat throws.
RECURSIVE FilterDirectories(_, _)
FilterDirectories(entries, i) ==
  IF i > Len(EntryList) THEN <<>>
  ELSE LET item == EntryList[i]
           rest == FilterDirectories(entries, i + 1)
       IN IF entries[item] = "dir" THEN <<item>> \o rest ELSE rest

\* listDirectories: [] for a directory that does not exist or whose
\* readdirSync throws, the names that are directories otherwise
listDirectories(d) ==
  IF d.state = "absent" THEN <<>>
  ELSE IF d.state = "unreadable" THEN <<>>
  ELSE FilterDirectories(d.entries, 1)

\* readClaudeCodeSettings: null when the file does not exist, when
\* readFileSync or JSON.parse throws and when the text is `null`
readClaudeCodeSettings(s) ==
  IF s.state = "ok" THEN s ELSE None

Truthy(x) == x.t # "undefined"
\* Object.keys of a truthy value that is not an array
ObjectKeys(x) == IF x.t = "object" THEN x.keys ELSE <<>>

EmptyCapabilities ==
  [mcpServers |-> <<>>, skills |-> <<>>, plugins |-> <<>>, agents |-> <<>>,
   subAgents |-> <<>>, models |-> <<>>]

ClaudeDir == "~/.claude"
AgentsDir == "~/.claude/agents"
PluginsDir == "~/.claude/plugins"
SettingsPath == "~/.claude/settings.json"

\* detectClaudeCodeCapabilities on home directory h.  value is the returned
\* summary (Null for null), reads the paths under the home directory that
\* the call asked the file system about.  installCheck is the
\* `if (!claudePath) return null` of lines 342-344.  Nothing inside the try
\* block throws, so its catch is never entered.
CapabilitiesWith(manual, p, f, w, h, installCheck) ==
  LET d == detectClaudeCodePath(manual, p, f, w)
  IN
  IF installCheck /\ d.path = Null
    THEN [value |-> None, reads |-> {}]
  ELSE IF ~h.claudeDir
    THEN [value |-> None, reads |-> {ClaudeDir}]
  ELSE
    LET agents == IF h.agents.state # "absent"
                    THEN listDirectories(h.agents) ELSE <<>>
        plugins == IF h.plugins.state # "absent"
                     THEN listDirectories(h.plugins) ELSE <<>>
        settings == readClaudeCodeSettings(h.settings)
        models == IF settings # None /\ Truthy(settings.models)
                       /\ settings.models.t = "array"
                    THEN settings.models.v ELSE <<>>
        mcpServers == IF settings # None /\ Truthy(settings.mcpServers)
                        THEN IF settings.mcpServers.t = "array"
                               THEN settings.mcpServers.v
                               ELSE ObjectKeys(settings.mcpServers)
                        ELSE <<>>
    IN [value |-> [EmptyCapabilities EXCEPT !.agents = agents,
                                            !.plugins = plugins,
                                            !.models = models,
                                            !.mcpServers = mcpServers],
        reads |-> {ClaudeDir, AgentsDir, PluginsDir, SettingsPath}]

\* detectClaudeCodeCapabilities scanning ~/.claude whatever detection says
detectClaudeCodeCapabilitiesNoInstallCheck(manual, p, f, w, h) ==
  CapabilitiesWith(manual, p, f, w, h, FALSE)

detectClaudeCodeCapabilities(manual, p, f, w, h) ==
  CapabilitiesWith(manual, p, f, w, h, TRUE)

\* getClaudeCodeCapabilities, the claudecode:get-capabilities handler
getClaudeCodeCapabilities(manual, p, f, w, h) ==
  detectClaudeCodeCapabilities(manual, p, f, w, h)

callCapabilities(w) ==
  /\ Observed(WhichIsRun, w)
  /\ ret' = [op |-> "caps", manual |-> manualClaudeCodePath, w |-> w,
             res |-> getClaudeCodeCapabilities(manualClaudeCodePath, platform,
                                               fs, w, home)]
  /\ UNCHANGED <<platform, fs, home, manualClaudeCodePath, installation,
                 capabilities>>
  /\ UNCHANGED sessionVars
  /\ UNCHANGED moreVars

\* Capability requests on a linux host where the provider is absent, is at
\* a standard path, or is only on the PATH, for every state of ~/.claude.
InstalledAt(q) == [x \in AllPaths |-> IF x = q THEN "exec" ELSE "absent"]
InitCaps ==
  /\ InitSessions
  /\ InitMainIdle
  /\ InitUiIdle
  /\ platform = "linux"
  /\ fs \in {[x \in AllPaths |-> "absent"], InstalledAt("/usr/local/bin/claude"),
             InstalledAt(WhichPath)}
  /\ home \in Homes
  /\ manualClaudeCodePath = Null
  /\ installation = None
  /\ capabilities = None
  /\ ret = NoCall

NextCaps == \E w \in WhichOutcomes : callCapabilities(w)

SpecCaps == InitCaps /\ [][NextCaps]_vars

\* ====================================================== install / update
\* What execSync throws carries a message, a sequence of text fragments;
\* String.prototype.includes finds a fragment, case-sensitively.
Includes(msg, t) == \E i \in 1..Len(msg) : msg[i] = t
ErrorMessages ==
  {<<>>, <<"npm ERR!", "EACCES">>, <<"npm ERR!", "permission denied">>,
   <<"Permission denied">>, <<"spawnSync /bin/sh ENOENT">>,
   <<"npm ERR!", "E404">>}
\* outcomes of the install and of the update command: it prints and exits
\* with 0, or execSync throws (non-zero exit, spawn failure)
CommandOutcomes ==
  {[kind |-> "out", out |-> <<"done", "\n">>]}
    \cup {[kind |-> "throw", message |-> m] : m \in ErrorMessages}

\* error?.message || String(error), for an Error object
ErrorText(o) == IF o.message # <<>> THEN o.message ELSE <<"Error">>

PermissionDeniedMessage ==
  <<"Permission denied.", "Please try again with sudo (requires password).">>
NotInstalledMessage == <<"Claude Code is not installed">>
InstallCommand(useSudo) ==
  IF useSudo THEN "sudo npm install -g @anthropic-ai/claude-code"
  ELSE "npm install -g @anthropic-ai/claude-code"
UpdateCommand == "clu update"

\* installClaudeCode.  res is the returned object, cmds the commands handed
\* to execSync, raised whether an exception left the function (catches is
\* the try/catch of lines 178-213).
InstallWith(useSudo, o, catches) ==
  LET cmds == <<InstallCommand(useSudo)>> IN
  IF o.kind = "out"
    THEN [res |-> [success |-> TRUE, output |-> Trim(o.out)],
          cmds |-> cmds, raised |-> FALSE]
  ELSE IF ~catches
    THEN [res |-> None, cmds |-> cmds, raised |-> TRUE]
  ELSE LET errorMessage == ErrorText(o) IN
       IF Includes(errorMessage, "EACCES")
            \/ Includes(errorMessage, "permission denied")
         THEN [res |-> [success |-> FALSE, output |-> "",
                        error |-> PermissionDeniedMessage],
               cmds |-> cmds, raised |-> FALSE]
         ELSE [res |-> [success |-> FALSE, output |-> "",
                        error |-> errorMessage],
               cmds |-> cmds, raised |-> FALSE]

\* installClaudeCode with execSync outside any try block
installClaudeCodeNoCatch(useSudo, o) == InstallWith(useSudo, o, FALSE)

installClaudeCode(useSudo, o) == InstallWith(useSudo, o, TRUE)

\* updateClaudeCode.  detected is what its detectClaudeCodePath returned;
\* detectFirst is the `if (!claudePath)` return of lines 226-232.
UpdateWith(manual, p, f, w, o, detectFirst) ==
  LET claudePath == detectClaudeCodePath(manual, p, f, w).path IN
  IF detectFirst /\ claudePath = Null
    THEN [res |-> [success |-> FALSE, output |-> "",
                   error |-> NotInstalledMessage],
          detected |-> claudePath, cmds |-> <<>>, raised |-> FALSE]
  ELSE IF o.kind = "out"
    THEN [res |-> [success |-> TRUE, output |-> Trim(o.out)],
          detected |-> claudePath, cmds |-> <<UpdateCommand>>,
          raised |-> FALSE]
  ELSE [res |-> [success |-> FALSE, output |-> "", error |-> ErrorText(o)],
        detected |-> claudePath, cmds |-> <<UpdateCommand>>,
        raised |-> FALSE]

\* updateClaudeCode running `clu update` whatever detection says
updateClaudeCodeNoDetect(manual, p, f, w, o) ==
  UpdateWith(manual, p, f, w, o, FALSE)

updateClaudeCode(manual, p, f, w, o) ==
  UpdateWith(manual, p, f, w, o, TRUE)

\* What a finished install leaves on the machine: with placed, the npm
\* global bin directory, which is on the PATH, holds the executable.
AfterInstall(f, res, placed) ==
  IF res # None /\ res.success /\ placed
    THEN [f EXCEPT ![WhichPath] = "exec"] ELSE f

\* handleInstallClaudeCode, the claudecode:install handler
handleInstallClaudeCode(useSudo, o, placed) ==
  LET r == installClaudeCode(useSudo, o) IN
  /\ o.kind = "out" \/ ~placed
  /\ ret' = [op |-> "install", useSudo |-> useSudo, o |-> o, res |-> r.res,
             cmds |-> r.cmds, raised |-> r.raised]
  /\ fs' = AfterInstall(fs, r.res, placed)
  /\ UNCHANGED <<platform, home, manualClaudeCodePath, installation,
                 capabilities>>
  /\ UNCHANGED sessionVars
  /\ UNCHANGED moreVars

\* handleUpdateClaudeCode, the claudecode:update handler
handleUpdateClaudeCode(w, o) ==
  LET r == updateClaudeCode(manualClaudeCodePath, platform, fs, w, o) IN
  /\ ret' = [op |-> "update", manual |-> manualClaudeCodePath, w |-> w,
             o |-> o, res |-> r.res, detected |-> r.detected,
             cmds |-> r.cmds, raised |-> r.raised]
  /\ UNCHANGED <<platform, fs, home, manualClaudeCodePath, installation,
                 capabilities>>
  /\ UNCHANGED sessionVars
  /\ UNCHANGED moreVars

\* ------------------------------------------------ useClaudeCodeModels
\* An IPC call resolves with what the handler returned or rejects with the
\* Error of ipcRenderer.invoke, whose message is never empty.
IpcOutcomes == {"resolve", "reject"}
IpcError == [message |-> <<"Error invoking remote method">>]
NotInstalledInfo == [installed |-> FALSE, path |-> Null, version |-> Null]

\* checkInstallation: the value it stores in the installation atom
checkInstallation(ipc, manual, p, f, w, v) ==
  IF ipc = "reject" THEN NotInstalledInfo
  ELSE LET info == getClaudeCodeInstallationInfo(manual, p, f, w, w, v)
       IN IF info.raised THEN NotInstalledInfo
          ELSE [installed |-> info.installed, path |-> info.path,
                version |-> info.version]

\* loadCapabilities: the value it stores in the capabilities atom
loadCapabilities(ipc, manual, p, f, w, h) ==
  IF ipc = "reject" THEN None
  ELSE getClaudeCodeCapabilities(manual, p, f, w, h).value

\* The tail shared by the hook's installClaudeCode and updateClaudeCode:
\* r is what the main process did, ipc the outcome of the IPC call, f the
\* file system the refresh sees.  A result with success refreshes the two
\* atoms, checkInstallation first; a rejected call gives the catch's
\* structured failure.
HookSettle(op, r, ipc, f, ipcInfo, ipcCaps, w, v) ==
  IF ipc = "reject" \/ r.raised
    THEN /\ ret' = [op |-> op, ipc |-> ipc, raised |-> FALSE,
                    refreshed |-> FALSE,
                    res |-> [success |-> FALSE, output |-> "",
                             error |-> IpcError.message]]
         /\ UNCHANGED <<installation, capabilities>>
    ELSE /\ ret' = [op |-> op, ipc |-> ipc, raised |-> FALSE,
                    refreshed |-> r.res.success, res |-> r.res]
         /\ IF r.res.success
              THEN /\ installation' =
                        checkInstallation(ipcInfo, manualClaudeCodePath,
                                          platform, f, w, v)
                   /\ capabilities' =
                        loadCapabilities(ipcCaps, manualClaudeCodePath,
                                         platform, f, w, home)
              ELSE UNCHANGED <<installation, capabilities>>

\* The inputs of a refresh that does not happen are never observed; such a
\* call is explored for one value of them only.
RefreshObserved(refreshes, ipcInfo, ipcCaps, w, v) ==
  \/ refreshes
  \/ /\ ipcInfo = "resolve" /\ ipcCaps = "resolve"
     /\ w = [kind |-> "throw"] /\ v = [kind |-> "throw"]

\* the hook's installClaudeCode
hookInstallClaudeCode(useSudo, ipc, o, placed, ipcInfo, ipcCaps, w, v) ==
  LET r == installClaudeCode(useSudo, o)
      f == IF ipc = "reject" THEN fs ELSE AfterInstall(fs, r.res, placed)
  IN /\ RefreshObserved(ipc = "resolve" /\ o.kind = "out", ipcInfo, ipcCaps,
                        w, v)
     /\ (ipc = "resolve" /\ o.kind = "out") \/ ~placed
     /\ fs' = f
     /\ HookSettle("hookInstall", r, ipc, f, ipcInfo, ipcCaps, w, v)
     /\ UNCHANGED <<platform, home, manualClaudeCodePath>>
     /\ UNCHANGED sessionVars
     /\ UNCHANGED moreVars

\* the hook's updateClaudeCode
hookUpdateClaudeCode(ipc, o, ipcInfo, ipcCaps, w, v) ==
  LET r == updateClaudeCode(manualClaudeCodePath, platform, fs, w, o)
  IN /\ \/ ipc = "resolve" /\ r.res.success
        \/ /\ ipcInfo = "resolve" /\ ipcCaps = "resolve"
           /\ v = [kind |-> "throw"]
     /\ HookSettle("hookUpdate", r, ipc, fs, ipcInfo, ipcCaps, w, v)
     /\ UNCHANGED <<platform, fs, home, manualClaudeCodePath>>
     /\ UNCHANGED sessionVars
     /\ UNCHANGED moreVars

\* Install and update on a linux host where the provider is absent or at a
\* standard path, with ~/.claude missing or holding one agent and a
\* settings file.
SampleHome ==
  [claudeDir |-> TRUE,
   agents |-> [state |-> "ok",
               entries |-> [n \in EntryNames |->
                              IF n = "e1" THEN "dir" ELSE "none"]],
   plugins |-> DirAbsent,
   settings |-> [state |-> "ok", models |-> JsArray(<<"m1">>),
                 mcpServers |-> JsObject(<<"k1">>)]]
InitInstall ==
  /\ InitSessions
  /\ InitMainIdle
  /\ InitUiIdle
  /\ platform = "linux"
  /\ fs \in {[x \in AllPaths |-> "absent"], InstalledAt("/usr/local/bin/claude")}
  /\ home \in {NoHome, SampleHome}
  /\ manualClaudeCodePath = Null
  /\ installation = None
  /\ capabilities = None
  /\ ret = NoCall

NextInstall ==
  \/ \E useSudo \in BOOLEAN : \E o \in CommandOutcomes : \E placed \in BOOLEAN :
       handleInstallClaudeCode(useSudo, o, placed)
  \/ \E w \in WhichOutcomes : \E o \in CommandOutcomes :
       handleUpdateClaudeCode(w, o)
  \/ \E useSudo \in BOOLEAN : \E ipc \in IpcOutcomes :
       \E o \in CommandOutcomes : \E placed \in BOOLEAN :
         \E ipcInfo \in IpcOutcomes : \E ipcCaps \in IpcOutcomes :
           \E w \in WhichOutcomes : \E v \in VersionOutcomes :
             hookInstallClaudeCode(useSudo, ipc, o, placed, ipcInfo, ipcCaps,
                                   w, v)
  \/ \E ipc \in IpcOutcomes : \E o \in CommandOutcomes :
       \E ipcInfo \in IpcOutcomes : \E ipcCaps \in IpcOutcomes :
         \E w \in WhichOutcomes : \E v \in VersionOutcomes :
           hookUpdateClaudeCode(ipc, o, ipcInfo, ipcCaps, w, v)

SpecInstall == InitInstall /\ [][NextInstall]_vars

\* ================================================ the main process thread
\* Every external command of the lifecycle code is run with execSync, which
\* blocks the one thread of the main process until the child process has
\* exited.  No call passes a `timeout` option, so nothing but the child's
\* exit ends the call.  ipcMain handlers run on the same thread.
MaxCalls    == 2      \* execSync calls explored
MaxRequests == 2      \* IPC requests explored

\* `which claude`, `"<path>" --version`, the process-table query
ProbeOps == {"which", "version", "ps"}
\* the install and the update command
SupervisorOps == {"install", "update"}
ExecOps == ProbeOps \cup SupervisorOps

\* a child process that will exit, and one that never does
ChildFates == {"running", "hung"}

\* the renderer sends a detection or capability request
ipcRequest ==
  /\ issued < MaxRequests
  /\ issued' = issued + 1
  /\ UNCHANGED <<mainPc, child, beat, answered, calls>>
  /\ UNCHANGED <<sessionVars, hostVars, uiVars>>

\* an ipcMain handler runs and answers the oldest waiting request; this
\* takes the thread
serveRequest ==
  /\ mainPc.state = "idle"
  /\ answered < issued
  /\ answered' = answered + 1
  /\ UNCHANGED <<mainPc, child, beat, issued, calls>>
  /\ UNCHANGED <<sessionVars, hostVars, uiVars>>

\* a handler reaches execSync(op): the child is spawned and the thread
\* waits; since is the number of requests sent before the call
execSyncCall(op, fate) ==
  /\ mainPc.state = "idle"
  /\ calls < MaxCalls
  /\ mainPc' = [state |-> "execSync", op |-> op, since |-> issued]
  /\ child' = fate
  /\ calls' = calls + 1
  /\ UNCHANGED <<beat, issued, answered>>
  /\ UNCHANGED <<sessionVars, hostVars, uiVars>>

\* the child process exits (with any status)
childExit ==
  /\ child = "running"
  /\ child' = "exited"
  /\ UNCHANGED <<mainPc, beat, issued, answered, calls>>
  /\ UNCHANGED <<sessionVars, hostVars, uiVars>>

\* a child process that never exits goes on running
childStep ==
  /\ child = "hung"
  /\ beat' = ~beat
  /\ UNCHANGED <<mainPc, child, issued, answered, calls>>
  /\ UNCHANGED <<sessionVars, hostVars, uiVars>>

\* execSync returns (or throws) once the child has exited
execSyncReturn ==
  /\ mainPc.state = "execSync"
  /\ child = "exited"
  /\ mainPc' = Idle
  /\ child' = "none"
  /\ UNCHANGED <<beat, issued, answered, calls>>
  /\ UNCHANGED <<sessionVars, hostVars, uiVars>>

InitProcs ==
  /\ InitSessions
  /\ InitMainIdle
  /\ InitUiIdle
  /\ InitHostIdle

NextProcs ==
  \/ ipcRequest
  \/ serveRequest
  \/ \E op \in ExecOps : \E fate \in ChildFates : execSyncCall(op, fate)
  \/ childExit
  \/ childStep
  \/ execSyncReturn

\* The event loop runs a handler whenever the thread is free, the operating
\* system keeps scheduling the child, and execSync returns when the child
\* has exited.
SpecProcs ==
  /\ InitProcs
  /\ [][NextProcs]_vars
  /\ WF_vars(serveRequest)
  /\ WF_vars(childExit)
  /\ WF_vars(childStep)
  /\ WF_vars(execSyncReturn)

\* ===================================== process checks and transport URLs
MaxMatches == 2       \* processes a process-table query can report
MaxUrlLen  == 6       \* characters of a configured base URL

\* The process-table query of a platform: `tasklist /FI "IMAGENAME eq ..."`
\* on win32, pgrep elsewhere.
QueryCommand(p) == IF p = "win32" THEN "tasklist" ELSE "pgrep"

RECURSIVE PidLines(_)
PidLines(n) == IF n = 0 THEN <<>> ELSE <<"pid", "\n">> \o PidLines(n - 1)

\* What the query does; matches is the number of matching processes it
\* reports.  tasklist with a filter that matches nothing prints an INFO
\* line and exits with 0; pgrep that matches nothing exits with 1, which
\* makes execSync throw.  Either command can fail to run at all.
QueryOutcomes(cmd) ==
  {[kind |-> "throw", out |-> <<>>, matches |-> 0]}
    \cup {[kind |-> "out", out |-> PidLines(n), matches |-> n] :
            n \in 1..MaxMatches}
    \cup (IF cmd = "tasklist"
            THEN {[kind |-> "out",
                   out |-> <<"INFO: No tasks are running which match the specified criteria.", "\n">>,
                   matches |-> 0]}
            ELSE {[kind |-> "out", out |-> <<"\n">>, matches |-> 0]})

\* result.trim().length > 0
TrimmedNonEmpty(out) == TrimRight(TrimLeft(out)) # <<>>

\* isOllamaInstalled on platform p when the query does q
isOllamaInstalled(p, q) ==
  IF q.kind = "throw" THEN FALSE
  ELSE IF p = "win32" THEN TRUE
  ELSE TrimmedNonEmpty(q.out)

\* isLmStudioInstalled on platform p when the query does q
isLmStudioInstalled(p, q) ==
  IF q.kind = "throw" THEN FALSE
  ELSE IF p = "win32" THEN TRUE
  ELSE IF p = "darwin" THEN TrimmedNonEmpty(q.out)
  ELSE TrimmedNonEmpty(q.out)

\* A URL is a sequence of characters; "h" stands for any character other
\* than "/", "v" and "1".
UrlChars == {"h", "/", "v", "1"}
RECURSIVE UrlsOfLen(_)
UrlsOfLen(n) ==
  IF n = 0 THEN {<<>>}
  ELSE {Append(u, c) : u \in UrlsOfLen(n - 1), c \in UrlChars}
Urls == UNION {UrlsOfLen(n) : n \in 0..MaxUrlLen}

\* options?.baseURL: missing, or a string
ProviderOptions ==
  {[given |-> FALSE, baseURL |-> <<>>]}
    \cup {[given |-> TRUE, baseURL |-> u] : u \in Urls}
\* process.env.CLAUDE_CODE_PORT: unset, empty, or a port
EnvPorts ==
  {[given |-> FALSE, value |-> <<>>], [given |-> TRUE, value |-> <<>>],
   [given |-> TRUE, value |-> <<"1", "1">>]}

OllamaDefault == <<"h", "1">>           \* "http://localhost:11434"
CLAUDE_CODE_DEFAULT_PORT == <<"1">>     \* 3000
\* getClaudeCodeBaseUrl: `http://localhost:${port}`
getClaudeCodeBaseUrl(env) ==
  <<"h">> \o (IF env.given /\ env.value # <<>> THEN env.value
              ELSE CLAUDE_CODE_DEFAULT_PORT)

\* withoutTrailingSlash of @ai-sdk/provider-utils: url.replace(/\/$/, "")
withoutTrailingSlash(url) ==
  IF url # <<>> /\ url[Len(url)] = "/" THEN SubSeq(url, 1, Len(url) - 1)
  ELSE url

\* String.prototype.endsWith
EndsWith(s, suffix) ==
  /\ Len(s) >= Len(suffix)
  /\ SubSeq(s, Len(s) - Len(suffix) + 1, Len(s)) = suffix

V1 == <<"/", "v", "1">>

\* the two statements that compute v1Base, without the endsWith test
NormalizeBaseAlwaysAppend(url) == withoutTrailingSlash(url) \o V1

\* the two statements that compute v1Base from the resolved address
NormalizeBase(url) ==
  LET base == withoutTrailingSlash(url)
  IN IF EndsWith(base, V1) THEN base ELSE base \o V1

\* createOllamaProvider: the address it resolves and the baseURL it hands
\* to createOpenAICompatible
createOllamaProvider(options) ==
  LET resolved == IF options.given THEN options.baseURL ELSE OllamaDefault
  IN [resolved |-> resolved, baseURL |-> NormalizeBase(resolved)]

\* createClaudeCodeProvider, likewise
createClaudeCodeProvider(options, env) ==
  LET resolved == IF options.given THEN options.baseURL
                  ELSE getClaudeCodeBaseUrl(env)
  IN [resolved |-> resolved, baseURL |-> NormalizeBase(resolved)]

\* These functions are pure: a behaviour makes one call, a second one would
\* show nothing the first did not.
callIsOllamaInstalled ==
  /\ ret = NoCall
  /\ \E q \in QueryOutcomes(QueryCommand(platform)) :
       ret' = [op |-> "isOllamaInstalled", q |-> q,
               res |-> isOllamaInstalled(platform, q)]
  /\ UNCHANGED <<platform, fs, home, manualClaudeCodePath, installation,
                 capabilities>>
  /\ UNCHANGED <<sessionVars, moreVars>>

callIsLmStudioInstalled ==
  /\ ret = NoCall
  /\ \E q \in QueryOutcomes(QueryCommand(platform)) :
       ret' = [op |-> "isLmStudioInstalled", q |-> q,
               res |-> isLmStudioInstalled(platform, q)]
  /\ UNCHANGED <<platform, fs, home, manualClaudeCodePath, installation,
                 capabilities>>
  /\ UNCHANGED <<sessionVars, moreVars>>

callCreateOllamaProvider ==
  /\ ret = NoCall
  /\ \E options \in ProviderOptions :
       ret' = [op |-> "createOllamaProvider", options |-> options,
               default |-> OllamaDefault,
               res |-> createOllamaProvider(options)]
  /\ UNCHANGED <<platform, fs, home, manualClaudeCodePath, installation,
                 capabilities>>
  /\ UNCHANGED <<sessionVars, moreVars>>

\* the environment matters only when no override is given
callCreateClaudeCodeProvider ==
  /\ ret = NoCall
  /\ \E options \in ProviderOptions : \E env \in EnvPorts :
       /\ ~options.given \/ ~env.given
       /\ ret' = [op |-> "createClaudeCodeProvider", options |-> options,
                  default |-> getClaudeCodeBaseUrl(env),
                  res |-> createClaudeCodeProvider(options, env)]
  /\ UNCHANGED <<platform, fs, home, manualClaudeCodePath, installation,
                 capabilities>>
  /\ UNCHANGED <<sessionVars, moreVars>>

\* The process checks on every platform, transport construction for every
\* configured address.
InitPure ==
  /\ InitSessions
  /\ InitMainIdle
  /\ InitUiIdle
  /\ platform \in Platforms
  /\ fs = [p \in AllPaths |-> "absent"]
  /\ home = NoHome
  /\ manualClaudeCodePath = Null
  /\ installation = None
  /\ capabilities = None
  /\ ret = NoCall

NextPure ==
  \/ callIsOllamaInstalled
  \/ callIsLmStudioInstalled
  \/ callCreateOllamaProvider
  \/ callCreateClaudeCodeProvider

SpecPure == InitPure /\ [][NextPure]_vars

\* ================================================ the handlers together
\* a call of getClaudeCodeVersion
callVersion(w, v) ==
  /\ Observed(WhichIsRun, w)
  /\ Observed(detectClaudeCodePath(manualClaudeCodePath, platform, fs,
                                   w).path # Null, v)
  /\ ret' = [op |-> "version", manual |-> manualClaudeCodePath, w |-> w,
             v |-> v,
             res |-> getClaudeCodeVersion(manualClaudeCodePath, platform, fs,
                                          w, v)]
  /\ UNCHANGED <<platform, fs, home, manualClaudeCodePath, installation,
                 capabilities>>
  /\ UNCHANGED sessionVars
  /\ UNCHANGED moreVars

\* fetchClaudeCodeModels: a fixed list when the provider is installed, an
\* Error otherwise
ClaudeCodeModelNames ==
  <<"claude-sonnet-4.5", "claude-sonnet-4", "claude-opus-4", "claude-haiku-4">>
isClaudeCodeInstalled(manual, p, f, w) ==
  detectClaudeCodePath(manual, p, f, w).path # Null
fetchClaudeCodeModels(manual, p, f, w) ==
  IF ~isClaudeCodeInstalled(manual, p, f, w)
    THEN [raised |-> TRUE, models |-> <<>>]
    ELSE [raised |-> FALSE, models |-> ClaudeCodeModelNames]

\* the local-models:list-claudecode handler
callListModels(w) ==
  /\ Observed(WhichIsRun, w)
  /\ ret' = [op |-> "models", manual |-> manualClaudeCodePath, w |-> w,
             res |-> fetchClaudeCodeModels(manualClaudeCodePath, platform, fs,
                                           w)]
  /\ UNCHANGED <<platform, fs, home, manualClaudeCodePath, installation,
                 capabilities>>
  /\ UNCHANGED sessionVars
  /\ UNCHANGED moreVars

\* the hook's checkInstallation, called on its own (mount, refresh button)
hookCheckInstallation(ipc, w, v) ==
  /\ Observed(ipc = "resolve" /\ WhichIsRun, w)
  /\ Observed(ipc = "resolve"
                /\ detectClaudeCodePath(manualClaudeCodePath, platform, fs,
                                        w).path # Null, v)
  /\ installation' = checkInstallation(ipc, manualClaudeCodePath, platform,
                                       fs, w, v)
  /\ ret' = [op |-> "checkInstallation", ipc |-> ipc, w |-> w, v |-> v]
  /\ UNCHANGED <<platform, fs, home, manualClaudeCodePath, capabilities>>
  /\ UNCHANGED sessionVars
  /\ UNCHANGED moreVars

\* Every handler of the main process, and the hook's installation check, on
\* a linux host where the provider is absent, at a standard path, or only
\* at a path the user can pick.
InitMain ==
  /\ InitSessions
  /\ InitMainIdle
  /\ InitUiIdle
  /\ platform = "linux"
  /\ fs \in {[x \in AllPaths |-> "absent"]}
         \cup {InstalledAt(q) : q \in {"/usr/local/bin/claude"} \cup Selectable}
  /\ home \in {NoHome, SampleHome}
  /\ manualClaudeCodePath = Null
  /\ installation = None
  /\ capabilities = None
  /\ ret = NoCall

NextMain ==
  \/ \E r \in DialogResults : selectClaudeCodePath(r)
  \/ \E w \in WhichOutcomes : callDetect(w)
  \/ \E w \in WhichOutcomes : \E v \in VersionOutcomes : callVersion(w, v)
  \/ \E w1 \in WhichOutcomes : \E w2 \in WhichOutcomes :
       \E v \in VersionOutcomes : callInstallationInfo(w1, w2, v)
  \/ \E w \in WhichOutcomes : callCapabilities(w)
  \/ \E w \in WhichOutcomes : callListModels(w)
  \/ \E useSudo \in BOOLEAN : \E o \in CommandOutcomes : \E placed \in BOOLEAN :
       handleInstallClaudeCode(useSudo, o, placed)
  \/ \E w \in WhichOutcomes : \E o \in CommandOutcomes :
       handleUpdateClaudeCode(w, o)
  \/ \E ipc \in IpcOutcomes : \E w \in WhichOutcomes :
       \E v \in VersionOutcomes : hookCheckInstallation(ipc, w, v)

SpecMain == InitMain /\ [][NextMain]_vars

\* ============================================= the hook and the component
\* An operation of the settings component runs in the renderer up to its
\* next await; the reply of the IPC call it waits for resumes it.  One
\* action is one such stretch: the handler's work in the main process
\* followed by the continuation in the renderer up to the next await (the
\* hook's return and the component's code after its own await run in the
\* same turn).  Operations of different kinds can be in progress together;
\* the button of an operation is disabled while it runs.
MaxOps   == 2    \* component operations started
MaxLoads == 2    \* loadModels calls made

HookFailure == [success |-> FALSE, output |-> "", error |-> IpcError.message]

\* `if (result.success)` and `if (selectedPath)` with refreshing whatever
\* the result was
StartsRefreshAlways(X, result) == TRUE

\* `if (result.success)` / `if (selectedPath)`: the hook refreshes
StartsRefresh(X, result) ==
  IF X = "selectPath" THEN result # Null ELSE result.success

\* the toast the component shows when the hook's promise has resolved; a
\* selection that gave no path shows none
ToastOf(X, useSudo, result, shown) ==
  IF X = "selectPath"
    THEN IF result # Null THEN "Path selected" ELSE shown
  ELSE IF X = "installClaudeCode"
    THEN IF result.success THEN "Installation successful"
         ELSE IF Includes(result.error, "EACCES") /\ ~useSudo
           THEN "Permission denied"
           ELSE "Installation failed"
  ELSE IF result.success THEN "Update successful" ELSE "Update failed"

\* setIsSelecting(true) ... await selectPath()
handleSelectPath ==
  /\ hookOps < MaxOps
  /\ ~isSelecting
  /\ hookPc["selectPath"].state = "idle"
  /\ isSelecting' = TRUE
  /\ hookOps' = hookOps + 1
  /\ hookPc' = [hookPc EXCEPT !["selectPath"] =
                  [state |-> "ipc", useSudo |-> FALSE, log |-> <<>>]]
  /\ UNCHANGED <<isInstalling, isUpdating, toast, loading, claudeCodeModels,
                 claudeCodeModelsError, loadsInFlight, loadCalls>>
  /\ UNCHANGED <<sessionVars, hostVars, procVars>>

\* setIsInstalling(true) ... await installClaudeCode(useSudo)
handleInstall(useSudo) ==
  /\ hookOps < MaxOps
  /\ ~isInstalling
  /\ hookPc["installClaudeCode"].state = "idle"
  /\ isInstalling' = TRUE
  /\ hookOps' = hookOps + 1
  /\ hookPc' = [hookPc EXCEPT !["installClaudeCode"] =
                  [state |-> "ipc", useSudo |-> useSudo, log |-> <<>>]]
  /\ UNCHANGED <<isSelecting, isUpdating, toast, loading, claudeCodeModels,
                 claudeCodeModelsError, loadsInFlight, loadCalls>>
  /\ UNCHANGED <<sessionVars, hostVars, procVars>>

\* setIsUpdating(true) ... await updateClaudeCode()
handleUpdate ==
  /\ hookOps < MaxOps
  /\ ~isUpdating
  /\ hookPc["updateClaudeCode"].state = "idle"
  /\ isUpdating' = TRUE
  /\ hookOps' = hookOps + 1
  /\ hookPc' = [hookPc EXCEPT !["updateClaudeCode"] =
                  [state |-> "ipc", useSudo |-> FALSE, log |-> <<>>]]
  /\ UNCHANGED <<isSelecting, isInstalling, toast, loading, claudeCodeModels,
                 claudeCodeModelsError, loadsInFlight, loadCalls>>
  /\ UNCHANGED <<sessionVars, hostVars, procVars>>

\* The hook's promise resolves with result and the component's code after
\* its await runs: the toast, then the finally block.
HookReturns(X, cause, ipc, result, log) ==
  /\ hookPc' = [hookPc EXCEPT ![X] = [state |-> "idle"]]
  /\ toast' = ToastOf(X, hookPc[X].useSudo, result, toast)
  /\ isSelecting' = IF X = "selectPath" THEN FALSE ELSE isSelecting
  /\ isInstalling' = IF X = "installClaudeCode" THEN FALSE ELSE isInstalling
  /\ isUpdating' = IF X = "updateClaudeCode" THEN FALSE ELSE isUpdating
  /\ ret' = [op |-> X, useSudo |-> hookPc[X].useSudo, cause |-> cause,
             ipc |-> ipc, result |-> result, log |-> log]

\* The hook goes on to `await checkInstallation()`.
HookRefreshes(X, cause, result) ==
  /\ hookPc' = [hookPc EXCEPT ![X] =
                  [state |-> "checkInstallation", useSudo |-> @.useSudo,
                   cause |-> cause, result |-> result,
                   log |-> <<"checkInstallation starts">>]]
  /\ UNCHANGED <<isSelecting, isInstalling, isUpdating, toast, ret>>

\* What follows the reply (or the rejection) of the operation's own IPC
\* call: the catch block on a rejection, the refresh or the return
\* otherwise.
AfterOwnCall(X, cause, ipc, handled) ==
  LET result == IF ipc = "reject"
                  THEN (IF X = "selectPath" THEN Null ELSE HookFailure)
                  ELSE handled
  IN IF ipc = "resolve" /\ StartsRefresh(X, result)
       THEN HookRefreshes(X, cause, result)
       ELSE HookReturns(X, cause, ipc, result, <<>>)

NoCause == [kind |-> "none"]
\* A command that is not run has no outcome to observe; such a reply is
\* explored for one value of it only.
CommandObserved(used, o) == used \/ o = [kind |-> "throw", message |-> <<>>]

\* the reply to claudecode:select-path
selectReplied(ipc, result) ==
  /\ hookPc["selectPath"].state = "ipc"
  /\ ipc = "resolve" \/ result = [canceled |-> TRUE, filePaths |-> <<>>]
  /\ LET picked == ipc = "resolve" /\ ~result.canceled
                     /\ Len(result.filePaths) # 0
         selectedPath == IF picked THEN result.filePaths[1] ELSE Null
     IN /\ manualClaudeCodePath' =
             IF picked THEN selectedPath ELSE manualClaudeCodePath
        /\ AfterOwnCall("selectPath", NoCause, ipc, selectedPath)
  /\ UNCHANGED <<platform, fs, home, installation, capabilities>>
  /\ UNCHANGED <<hookOps, loading, claudeCodeModels, claudeCodeModelsError,
                 loadsInFlight, loadCalls>>
  /\ UNCHANGED <<sessionVars, procVars>>

\* the reply to claudecode:install
installReplied(ipc, o, placed) ==
  /\ hookPc["installClaudeCode"].state = "ipc"
  /\ CommandObserved(ipc = "resolve", o)
  /\ (ipc = "resolve" /\ o.kind = "out") \/ ~placed
  /\ LET r == installClaudeCode(hookPc["installClaudeCode"].useSudo, o)
     IN /\ fs' = IF ipc = "reject" THEN fs ELSE AfterInstall(fs, r.res, placed)
        /\ AfterOwnCall("installClaudeCode", o, ipc, r.res)
  /\ UNCHANGED <<platform, home, manualClaudeCodePath, installation,
                 capabilities>>
  /\ UNCHANGED <<hookOps, loading, claudeCodeModels, claudeCodeModelsError,
                 loadsInFlight, loadCalls>>
  /\ UNCHANGED <<sessionVars, procVars>>

\* the reply to claudecode:update
updateReplied(ipc, w, o) ==
  /\ hookPc["updateClaudeCode"].state = "ipc"
  /\ Observed(ipc = "resolve" /\ WhichIsRun, w)
  /\ CommandObserved(ipc = "resolve"
                       /\ detectClaudeCodePath(manualClaudeCodePath, platform,
                                               fs, w).path # Null, o)
  /\ LET r == updateClaudeCode(manualClaudeCodePath, platform, fs, w, o)
     IN AfterOwnCall("updateClaudeCode", o, ipc, r.res)
  /\ UNCHANGED <<platform, fs, home, manualClaudeCodePath, installation,
                 capabilities>>
  /\ UNCHANGED <<hookOps, loading, claudeCodeModels, claudeCodeModelsError,
                 loadsInFlight, loadCalls>>
  /\ UNCHANGED <<sessionVars, procVars>>

\* `await checkInstallation()` settles inside operation X; the hook goes on
\* to `await loadCapabilities()`.
checkInstallationReplied(X, ipc, w, v) ==
  /\ hookPc[X].state = "checkInstallation"
  /\ Observed(ipc = "resolve" /\ WhichIsRun, w)
  /\ Observed(ipc = "resolve"
                /\ detectClaudeCodePath(manualClaudeCodePath, platform, fs,
                                        w).path # Null, v)
  /\ installation' = checkInstallation(ipc, manualClaudeCodePath, platform,
                                       fs, w, v)
  /\ hookPc' = [hookPc EXCEPT ![X] =
                  [@ EXCEPT !.state = "loadCapabilities",
                            !.log = @ \o <<"checkInstallation settled",
                                           "loadCapabilities starts">>]]
  /\ UNCHANGED <<platform, fs, home, manualClaudeCodePath, capabilities, ret>>
  /\ UNCHANGED <<hookOps, isSelecting, isInstalling, isUpdating, toast,
                 loading, claudeCodeModels, claudeCodeModelsError,
                 loadsInFlight, loadCalls>>
  /\ UNCHANGED <<sessionVars, procVars>>

\* `await loadCapabilities()` settles inside operation X; the hook returns
\* the result of its own call.
loadCapabilitiesReplied(X, ipc, w) ==
  /\ hookPc[X].state = "loadCapabilities"
  /\ Observed(ipc = "resolve" /\ WhichIsRun, w)
  /\ capabilities' = loadCapabilities(ipc, manualClaudeCodePath, platform, fs,
                                      w, home)
  /\ HookReturns(X, hookPc[X].cause, "resolve", hookPc[X].result,
                 hookPc[X].log \o <<"loadCapabilities settled">>)
  /\ UNCHANGED <<platform, fs, home, manualClaudeCodePath, installation>>
  /\ UNCHANGED <<hookOps, loading, claudeCodeModels, claudeCodeModelsError,
                 loadsInFlight, loadCalls>>
  /\ UNCHANGED <<sessionVars, procVars>>

\* The settings component on a linux host where the provider is absent or
\* at a standard path.
InitHook ==
  /\ InitSessions
  /\ InitMainIdle
  /\ InitUiIdle
  /\ platform = "linux"
  /\ fs \in {[x \in AllPaths |-> "absent"], InstalledAt("/usr/local/bin/claude")}
  /\ home = SampleHome
  /\ manualClaudeCodePath = Null
  /\ installation = None
  /\ capabilities = None
  /\ ret = NoCall

NextHook ==
  \/ handleSelectPath
  \/ \E useSudo \in BOOLEAN : handleInstall(useSudo)
  \/ handleUpdate
  \/ \E ipc \in IpcOutcomes : \E result \in DialogResults :
       selectReplied(ipc, result)
  \/ \E ipc \in IpcOutcomes : \E o \in CommandOutcomes : \E placed \in BOOLEAN :
       installReplied(ipc, o, placed)
  \/ \E ipc \in IpcOutcomes : \E w \in WhichOutcomes : \E o \in CommandOutcomes :
       updateReplied(ipc, w, o)
  \/ \E X \in HookOps : \E ipc \in IpcOutcomes : \E w \in WhichOutcomes :
       \E v \in VersionOutcomes : checkInstallationReplied(X, ipc, w, v)
  \/ \E X \in HookOps : \E ipc \in IpcOutcomes : \E w \in WhichOutcomes :
       loadCapabilitiesReplied(X, ipc, w)

SpecHook == InitHook /\ [][NextHook]_vars

\* --------------------------------------------------------- loadModels
IpcErrorText == "Error invoking remote method"
ModelsNotInstalledText ==
  "Claude Code is not installed. Please install Claude Code CLI first."

\* loadModels up to its await: setLoading(true), the IPC call is sent
loadModelsCall ==
  /\ loadCalls < MaxLoads
  /\ loading' = TRUE
  /\ loadsInFlight' = loadsInFlight + 1
  /\ loadCalls' = loadCalls + 1
  /\ UNCHANGED <<hookPc, hookOps, isSelecting, isInstalling, isUpdating, toast,
                 claudeCodeModels, claudeCodeModelsError>>
  /\ UNCHANGED <<sessionVars, hostVars, procVars>>

\* loadModels after its await: the list or the error is stored and the
\* finally block runs setLoading(false)
loadModelsReplied(ipc, w) ==
  /\ loadsInFlight > 0
  /\ Observed(ipc = "resolve" /\ WhichIsRun, w)
  /\ LET r == fetchClaudeCodeModels(manualClaudeCodePath, platform, fs, w)
     IN /\ IF ipc = "reject" \/ r.raised
             THEN /\ claudeCodeModelsError' =
                       IF ipc = "reject" THEN IpcErrorText
                       ELSE ModelsNotInstalledText
                  /\ UNCHANGED claudeCodeModels
             ELSE /\ claudeCodeModels' = r.models
                  /\ claudeCodeModelsError' = Null
        /\ ret' = [op |-> "loadModels", ipc |-> ipc, w |-> w,
                   failed |-> ipc = "reject" \/ r.raised]
  /\ loading' = FALSE
  /\ loadsInFlight' = loadsInFlight - 1
  /\ UNCHANGED <<hookPc, hookOps, isSelecting, isInstalling, isUpdating, toast,
                 loadCalls>>
  /\ UNCHANGED <<platform, fs, home, manualClaudeCodePath, installation,
                 capabilities>>
  /\ UNCHANGED <<sessionVars, procVars>>

\* the hook's loadCapabilities, called on its own (mount, refresh button)
hookLoadCapabilities(ipc, w) ==
  /\ Observed(ipc = "resolve" /\ WhichIsRun, w)
  /\ capabilities' = loadCapabilities(ipc, manualClaudeCodePath, platform, fs,
                                      w, home)
  /\ ret' = [op |-> "loadCapabilities", ipc |-> ipc, w |-> w]
  /\ UNCHANGED <<platform, fs, home, manualClaudeCodePath, installation>>
  /\ UNCHANGED sessionVars
  /\ UNCHANGED moreVars

\* The atoms of the hook while model lists are loaded and the installation
\* is looked up, on a linux host where the provider is absent, at a
\* standard path, or only on the PATH.
InitLoads ==
  /\ InitSessions
  /\ InitMainIdle
  /\ InitUiIdle
  /\ platform = "linux"
  /\ fs \in {[x \in AllPaths |-> "absent"], InstalledAt("/usr/local/bin/claude"),
             InstalledAt(WhichPath)}
  /\ home \in {NoHome, SampleHome}
  /\ manualClaudeCodePath = Null
  /\ installation = None
  /\ capabilities = None
  /\ ret = NoCall

NextLoads ==
  \/ loadModelsCall
  \/ \E ipc \in IpcOutcomes : \E w \in WhichOutcomes : loadModelsReplied(ipc, w)
  \/ \E ipc \in IpcOutcomes : \E w \in WhichOutcomes :
       \E v \in VersionOutcomes : hookCheckInstallation(ipc, w, v)
  \/ \E ipc \in IpcOutcomes : \E w \in WhichOutcomes :
       hookLoadCapabilities(ipc, w)

SpecLoads == InitLoads /\ [][NextLoads]_vars

\* ============================================================== claims

\* C1: in every reachable state each conversation (chatId) has at most one
\* session registered as active in the manager's session table.
OneActivePerConversation ==
  \A c \in ChatIds : Cardinality(ActiveFor(c)) <= 1

\* C2: a start request for a conversation that already has an active session
\* is rejected: it registers no further session for that conversation and it
\* leaves the conversation's entry in the handler's table as it was.
BusyStartRejected ==
  [][\A c \in ChatIds :
       /\ ActiveFor(c) # {} =>
            \A s \in DOMAIN activeSessions' :
               activeSessions'[s].chatId = c => s \in DOMAIN activeSessions
       /\ (activeStreamSessions[c] # NoSession
             /\ streamPc[activeStreamSessions[c]] = "streaming") =>
            activeStreamSessions'[c] = activeStreamSessions[c]]_vars

\* C3: a session whose stream has exited (generator exhausted or thrown) is
\* no longer in the active-session table.
DeregisteredOnEveryExit ==
  \A s \in DOMAIN activeSessions : instance[s] \notin {"done", "failed"}

\* C4: no session emits two terminal events (end, error, aborted) over its
\* life, also when aborts race with each other or with the stream's end.
TerminalEvents(s) == retTrue[s] + endEvents[s] + errorEvents[s]
AtMostOneTerminalEvent ==
  \A s \in Ids : TerminalEvents(s) <= 1

InterruptAtMostOnce ==
  \A s \in Ids : interrupts[s] <= 1

\* C7: once the abort of a conversation's session has returned, a stream of
\* that conversation that was running at the time sends no further chunk and
\* no further token-budget event.
NoEventAfterAbort ==
  [][\A t \in Ids :
       abortedAt[t] => /\ chunkCount'[t] = chunkCount[t]
                       /\ budgetCount'[t] = budgetCount[t]]_vars

\* C8: the used value of successive token-budget events of one stream never
\* decreases.
TokenBudgetNonDecreasing ==
  [][\A t \in Ids :
       (budgetCount[t] > 0 /\ budgetCount'[t] > budgetCount[t])
         => lastUsed'[t] >= lastUsed[t]]_vars

\* C9: a session whose transport has failed is not left registered as
\* active.
FailedSessionDeregistered ==
  \A s \in Ids :
     instance[s] = "failed" =>
        ~(s \in DOMAIN activeSessions /\ activeSessions[s].status = "active")

\* C10: there is no state in which interrupt() has been invoked for a session
\* and the session is still in the table.
AbortBookkeepingImmediate ==
  \A s \in Ids : interrupts[s] > 0 => s \notin DOMAIN activeSessions

NoUsableManual == ret.manual = Null \/ fs[ret.manual] = "absent"
\* no path of the platform's candidate list exists
NoCandidateExists ==
  \A q \in Range(CLAUDE_CODE_PATHS(platform)) : fs[q] = "absent"
\* `which claude` exited non-zero, printed nothing, or printed a path that
\* does not exist
ProbeFailed(w) ==
  \/ w.kind = "throw"
  \/ Trim(w.out) = ""
  \/ fs[Trim(w.out)] = "absent"

\* C12: detectClaudeCodePath and getClaudeCodeInstallationInfo never raise,
\* whatever the manual path, the platform, the files present and the outcome
\* of `which` and of the version query; with no candidate present and a
\* failed `which` the result is path null, resp. installed=false, path=null,
\* version=null.
DetectionNeverFails ==
  /\ ret.op = "detect" =>
       /\ ~ret.res.raised
       /\ (NoUsableManual /\ NoCandidateExists /\ ProbeFailed(ret.w))
            => ret.res.path = Null
  /\ ret.op = "info" =>
       /\ ~ret.res.raised
       /\ (NoUsableManual /\ NoCandidateExists /\ ProbeFailed(ret.w))
            => /\ ret.res.installed = FALSE
               /\ ret.res.path = Null
               /\ ret.res.version = Null

\* C12 witness: installation info was asked for on linux with nothing
\* installed and `which claude` exiting non-zero.
InfoWithNothingInstalled ==
  /\ ret.op = "info"
  /\ platform = "linux"
  /\ NoUsableManual /\ NoCandidateExists
  /\ ret.w.kind = "throw"
  /\ ret.res.installed = FALSE

\* C13: a manual path that is set and exists is what detection returns, on
\* every platform and whatever candidates exist; a manual path that is set
\* but does not exist is never returned and detection gives what it gives
\* with no manual path at all.
ManualPathPriority ==
  (ret.op = "detect" /\ ret.manual # Null) =>
     IF fs[ret.manual] # "absent"
       THEN ret.res.path = ret.manual
       ELSE /\ ret.res.path # ret.manual
            /\ ret.res.path = detectClaudeCodePath(Null, platform, fs, ret.w).path

\* C13 witness: detection on win32 returned the existing manual path.
ManualPathOnWin32 ==
  /\ ret.op = "detect"
  /\ platform = "win32"
  /\ ret.manual # Null
  /\ fs[ret.manual] # "absent"
  /\ ret.res.path = ret.manual

\* C14: with no usable manual path, detection on darwin, linux or win32
\* returns the first candidate of the platform's list that exists and is
\* executable, examines no later candidate, and runs `which` only when no
\* candidate qualifies.
FirstExecutableCandidate ==
  (ret.op = "detect" /\ NoUsableManual
     /\ platform \in {"darwin", "linux", "win32"}) =>
     LET paths == CLAUDE_CODE_PATHS(platform)
         qual == {i \in 1..Len(paths) : fs[paths[i]] = "exec"}
     IN IF qual # {}
          THEN LET k == CHOOSE i \in qual : \A j \in qual : i <= j
               IN /\ ret.res.path = paths[k]
                  /\ ~ret.res.which
                  /\ \A j \in (k + 1)..Len(paths) :
                        paths[j] \notin Range(ret.res.probed)
          ELSE ret.res.which


\* ---- preconditions shared by the capability claims
\* the latest call was a capability request and detection had nothing to
\* find: no usable manual path, no candidate, no path from `which`
NotInstalled == NoUsableManual /\ NoCandidateExists /\ ProbeFailed(ret.w)
CapsAnswered == ret.op = "caps"

\* C15: a capability request made while the provider is not installed
\* returns none and asks the file system about no path of ~/.claude, the
\* settings file included.
NoScanWhenNotInstalled ==
  (CapsAnswered /\ NotInstalled)
     => /\ ret.res.value = None
        /\ ret.res.reads = {}

\* C15 witness: a capability request was answered with the provider not
\* installed while ~/.claude held an agent directory and a settings file.
CapsAskedWhenNotInstalled ==
  /\ CapsAnswered /\ NotInstalled
  /\ home.claudeDir
  /\ home.agents.state = "ok" /\ home.agents.entries["e1"] = "dir"
  /\ home.settings.state = "ok"

\* a directory whose listing fails or that holds a name stat fails on
DirFailed(d) ==
  \/ d.state = "unreadable"
  \/ d.state = "ok" /\ \E n \in EntryNames : d.entries[n] = "nostat"
\* the same directory without the failure
DirRepaired(d) ==
  [state |-> "ok",
   entries |-> [n \in EntryNames |->
                  IF d.entries[n] = "nostat" THEN "dir" ELSE d.entries[n]]]
\* a settings file that is missing, unreadable or malformed
SettingsFailed(s) == s.state \in {"absent", "unreadable", "malformed"}
SettingsRepaired ==
  [state |-> "ok", models |-> JsArray(<<"m1">>), mcpServers |-> JsArray(<<"s1">>)]
\* the summary the latest request would have returned on home directory h
SummaryOn(h) ==
  detectClaudeCodeCapabilities(ret.manual, platform, fs, ret.w, h).value

\* C16: for an installed provider, when the source of one capability group
\* fails (listing fails, a name cannot be stat'ed, settings.json is missing
\* or malformed) the request still returns a summary, the groups of that
\* source are empty in it, and every other group has the value it has
\* without the failure.
PartialFailureTolerated ==
  (CapsAnswered /\ ~NotInstalled) =>
    LET v == ret.res.value IN
    /\ DirFailed(home.agents) =>
         /\ v # None
         /\ v.agents = <<>>
         /\ LET o == SummaryOn([home EXCEPT !.claudeDir = TRUE,
                                            !.agents = DirRepaired(@)])
            IN /\ v.plugins = o.plugins /\ v.models = o.models
               /\ v.mcpServers = o.mcpServers
    /\ DirFailed(home.plugins) =>
         /\ v # None
         /\ v.plugins = <<>>
         /\ LET o == SummaryOn([home EXCEPT !.claudeDir = TRUE,
                                            !.plugins = DirRepaired(@)])
            IN /\ v.agents = o.agents /\ v.models = o.models
               /\ v.mcpServers = o.mcpServers
    /\ SettingsFailed(home.settings) =>
         /\ v # None
         /\ v.models = <<>> /\ v.mcpServers = <<>>
         /\ LET o == SummaryOn([home EXCEPT !.claudeDir = TRUE,
                                            !.settings = SettingsRepaired])
            IN v.agents = o.agents /\ v.plugins = o.plugins

\* C17: a capability request returns none only when the provider is not
\* installed; for an installed provider it returns a summary, also when
\* ~/.claude does not exist.
SummaryForEveryInstalled ==
  CapsAnswered => (ret.res.value = None <=> NotInstalled)


\* C18: an install without sudo whose command fails with EACCES or
\* 'permission denied' in the failure text returns success=false with the
\* retry-elevated message; every other failed install returns success=false
\* with the raw failure text as its error.
InstallFailureClassified ==
  (ret.op = "install" /\ ret.o.kind = "throw") =>
     LET raw == ErrorText(ret.o)
         signature == Includes(raw, "EACCES") \/ Includes(raw, "permission denied")
     IN /\ ~ret.raised
        /\ ret.res.success = FALSE
        /\ IF ~ret.useSudo /\ signature
             THEN ret.res.error = PermissionDeniedMessage
             ELSE ret.res.error = raw

\* C19: an update answered while detection finds nothing returns the
\* not-installed failure and runs no command; `clu update` is run only by
\* an update whose detection returned a path.
UpdateDetectsFirst ==
  ret.op = "update" =>
    /\ ret.detected =
         detectClaudeCodePath(ret.manual, platform, fs, ret.w).path
    /\ ret.detected = Null =>
         /\ ret.res = [success |-> FALSE, output |-> "",
                       error |-> NotInstalledMessage]
         /\ ret.cmds = <<>>
    /\ ret.cmds # <<>> => ret.detected # Null

\* C19 witness: an update was asked for with nothing installed, on a command
\* that would have exited with 0.
UpdateRefusedWhenAbsent ==
  /\ ret.op = "update"
  /\ ret.detected = Null
  /\ ret.o.kind = "out"
  /\ ~ret.res.success

\* a result object: success=false comes with a non-empty error, success=true
\* with none
Structured(r) ==
  /\ r # None
  /\ r.success \in BOOLEAN
  /\ r.success => "error" \notin DOMAIN r
  /\ ~r.success => ("error" \in DOMAIN r /\ r.error # <<>>)

\* C20: install and update, in the main process and in the hook, raise
\* nothing and return a structured result for every outcome of the command
\* and of the IPC call.
InstallUpdateNeverRaise ==
  ret.op \in {"install", "update", "hookInstall", "hookUpdate"} =>
    /\ ~ret.raised
    /\ Structured(ret.res)

\* C20 witness: an install whose command failed with an empty message has
\* returned.
InstallFailedWithEmptyMessage ==
  /\ ret.op = "install"
  /\ ret.o.kind = "throw" /\ ret.o.message = <<>>
  /\ ~ret.res.success

\* ---- the main process thread inside execSync
Probing == mainPc.state = "execSync" /\ mainPc.op \in ProbeOps
Supervising == mainPc.state = "execSync" /\ mainPc.op \in SupervisorOps

\* C21: a detection-side probe (`which`, `--version`, the process-table
\* query) that has been started eventually returns to its caller, also when
\* the command it spawned never exits.
ProbeEventuallyReturns == Probing ~> (mainPc.state = "idle")

\* C22: an install or update that has been started eventually returns a
\* result, also when the installer or updater never exits.
SupervisorEventuallyReturns == Supervising ~> (mainPc.state = "idle")

\* C23: an install or update command does not finish while a request issued
\* during its run is still unanswered: such requests are answered while the
\* command runs.
ServedWhileSupervising ==
  [][(Supervising /\ ~Supervising' /\ issued > mainPc.since)
       => answered = issued]_vars

\* C24: a process-running check returns true exactly when the process-table
\* query succeeded and reported at least one matching process, on every
\* platform; it raises nothing (its result is always a boolean).
ProcessCheckExact ==
  ret.op \in {"isOllamaInstalled", "isLmStudioInstalled"} =>
    /\ ret.res \in BOOLEAN
    /\ ret.res <=> (ret.q.kind = "out" /\ ret.q.matches >= 1)

\* ---- transport construction
Constructed == ret.op \in {"createOllamaProvider", "createClaudeCodeProvider"}
\* the address is the override when one is given, the default otherwise
ResolvedAsConfigured ==
  ret.res.resolved = IF ret.options.given THEN ret.options.baseURL
                     ELSE ret.default
\* an address ending in /v1 or /v1/ is not extended
NotExtended ==
  /\ EndsWith(ret.res.resolved, V1) => ret.res.baseURL = ret.res.resolved
  /\ EndsWith(ret.res.resolved, V1 \o <<"/">>) =>
       ret.res.baseURL \o <<"/">> = ret.res.resolved
\* normalizing the result again changes nothing
Idempotent == NormalizeBase(ret.res.baseURL) = ret.res.baseURL
\* s without its last n characters
DropLast(s, n) == SubSeq(s, 1, Len(s) - n)

ManualPathOnlySetBySelection ==
  [][manualClaudeCodePath' # manualClaudeCodePath =>
       /\ ret'.op = "select"
       /\ ret'.path # Null
       /\ manualClaudeCodePath' = ret'.path]_vars

\* C26 witness: a path was selected and an update ran afterwards, reading
\* the same manual path that is still held.
ManualPathHeldAcrossUpdate ==
  /\ manualClaudeCodePath \in Selectable
  /\ ret.op = "update"
  /\ ret.manual = manualClaudeCodePath

\* an installation-info value: installed exactly when a path is given, a
\* version only when installed
WellFormedInfo(i) ==
  /\ i.installed \in BOOLEAN
  /\ i.installed <=> i.path # Null
  /\ i.version # Null => i.installed

\* C28: every value getClaudeCodeInstallationInfo returns and every value
\* checkInstallation stores in the installation atom is well formed, and a
\* failed version query of a detected provider gives installed = true with
\* version = null.
InstallationInfoWellFormed ==
  /\ ret.op = "info" =>
       /\ ~ret.res.raised
       /\ WellFormedInfo(ret.res)
       /\ (detectClaudeCodePath(ret.manual, platform, fs, ret.w).path # Null
             /\ ret.v.kind = "throw")
            => (ret.res.installed /\ ret.res.version = Null)
  /\ installation # None => WellFormedInfo(installation)
  /\ ret.op = "checkInstallation" =>
       /\ ret.ipc = "reject" => installation = NotInstalledInfo
       /\ (ret.ipc = "resolve" /\ ret.v.kind = "throw"
             /\ detectClaudeCodePath(manualClaudeCodePath, platform, fs,
                                     ret.w).path # Null)
            => (installation.installed /\ installation.version = Null)

\* C28 witness: the hook stored the info of a detected provider whose
\* version query failed.
StoredInstalledWithoutVersion ==
  /\ ret.op = "checkInstallation"
  /\ ret.ipc = "resolve"
  /\ ret.v.kind = "throw"
  /\ installation # None
  /\ installation.installed
  /\ installation.path # Null
  /\ installation.version = Null

\* the util's test for a permission error of the install command
PermissionError(o) ==
  /\ o.kind = "throw"
  /\ Includes(ErrorText(o), "EACCES")
       \/ Includes(ErrorText(o), "permission denied")

\* C27: when an install started without sudo has failed with a permission
\* error, the toast shown is 'Permission denied' (try with sudo), not
\* 'Installation failed'.
PermissionDeniedToastShown ==
  (/\ ret.op = "installClaudeCode"
   /\ ~ret.useSudo
   /\ ret.ipc = "resolve"
   /\ PermissionError(ret.cause))
    => toast = "Permission denied"

\* a result after which the hook refreshes
Succeeded(X, result) ==
  IF X = "selectPath" THEN result # Null ELSE result.success
FullRefreshLog ==
  <<"checkInstallation starts", "checkInstallation settled",
    "loadCapabilities starts", "loadCapabilities settled">>

\* C29: in the hook's installClaudeCode, updateClaudeCode and selectPath
\* the refresh starts only after a successful result, checkInstallation
\* settles before loadCapabilities starts, both settle before the
\* operation's promise resolves, and a failed or cancelled operation starts
\* no refresh and leaves the installation and capabilities atoms as they
\* were.
RefreshAfterSuccessInOrder ==
  [][\A X \in HookOps :
       LET before == hookPc[X].state
           after == hookPc'[X].state
       IN /\ (after = "checkInstallation" /\ before # after) =>
               /\ before = "ipc"
               /\ Succeeded(X, hookPc'[X].result)
          /\ (after = "loadCapabilities" /\ before # after) =>
               /\ before = "checkInstallation"
               /\ hookPc'[X].log = SubSeq(FullRefreshLog, 1, 3)
          /\ (before # "idle" /\ after = "idle") =>
               /\ ret'.op = X
               /\ IF Succeeded(X, ret'.result)
                    THEN /\ before = "loadCapabilities"
                         /\ ret'.log = FullRefreshLog
                    ELSE /\ before = "ipc"
                         /\ ret'.log = <<>>
                         /\ UNCHANGED <<installation, capabilities>>
          /\ (before = "ipc" /\ after # "ipc") =>
               UNCHANGED <<installation, capabilities>>]_vars

\* C29 witness: an install succeeded and its promise resolved after both
\* refreshes, which stored the installation info.
RefreshedAfterInstall ==
  /\ ret.op = "installClaudeCode"
  /\ ret.result.success
  /\ ret.log = FullRefreshLog
  /\ installation # None
  /\ installation.installed

\* C30: the loading flag is true exactly while at least one loadModels call
\* is in flight.
LoadingWhileInFlight == loading <=> loadsInFlight > 0

====
